---- MODULE Spec2Model ----
(***************************************************************************)
(* Model of surferrr: BaseBrowser (base/base_browser.py) and its Chrome    *)
(* variant (browser/chrome.py).  One session instance is driven by a       *)
(* single-threaded client that may call launch(), shutdown(), the          *)
(* interaction methods, or use the instance as a context manager.  Every   *)
(* call into the selenium driver is one step whose outcome the driver      *)
(* decides.                                                                *)
(***************************************************************************)
EXTENDS Integers, Sequences, FiniteSets, TLC

(* ------------------------------ bounds --------------------------------- *)
\* number of top-level client calls on the instance
MaxCalls == 3
\* largest explicit max_wait argument the client passes
MaxWaitArg == 2
\* number of chunks a raw user-agent string is assembled from
MaxChunks == 3
\* length of the arguments list the caller passes to the constructor
MaxArgs == 2
\* number of sessions constructed from the caller's list
MaxSessions == 2

(* -------------------------- program constants -------------------------- *)
\* BaseBrowser.max_wait (class attribute)
self_max_wait == 3
\* BaseBrowser.wait_interval (class attribute)
wait_interval == 1
\* ARGUMENT_HEADLESS
ARGUMENT_HEADLESS == "--headless"
\* the marker launch() strips from the user agent: 'Headless'
Marker == <<"H", "e", "a", "d", "l", "e", "s", "s">>

(* ------------------------------ inputs --------------------------------- *)
Xpaths == {"x1", "x2"}
Elements == {"e1", "e2"}
\* Optional[int]: None is {}, the integer n is {n}
None == {}
MaxWaitArgs == {None} \cup {{n} : n \in (-1)..MaxWaitArg}

NoErr == [type |-> "None", msg |-> "", screen |-> "", stacktrace |-> ""]
\* NoSuchElementException instances the driver may raise
NoSuchErrs ==
    { [type |-> "NoSuchElementException", msg |-> "m1", screen |-> "s1", stacktrace |-> "t1"],
      [type |-> "NoSuchElementException", msg |-> "m2", screen |-> "s2", stacktrace |-> "t2"] }
\* any other exception of the driver (WebDriverException, connection errors)
DriverErr == [type |-> "WebDriverException", msg |-> "d", screen |-> "", stacktrace |-> ""]
\* self.driver read before any launch() assigned it
AttributeErr == [type |-> "AttributeError", msg |-> "driver", screen |-> "", stacktrace |-> ""]
\* an error raised by the body of a with block
BodyErr == [type |-> "BodyError", msg |-> "b", screen |-> "", stacktrace |-> ""]

\* arguments lists a caller may pass
ArgStrs == {"--a", "--b"}
CallerLists == UNION { [1..n -> ArgStrs] : n \in 0..MaxArgs }

\* raw user agents the engine may report: up to MaxChunks chunks
Chunks == { <<"H", "e", "a", "d">>, <<"l", "e", "s", "s">>, Marker, <<"C">> }
RECURSIVE Concat(_)
Concat(ss) == IF ss = <<>> THEN <<>> ELSE Head(ss) \o Concat(Tail(ss))
RawUAs == { Concat(cs) : cs \in UNION { [1..n -> Chunks] : n \in 0..MaxChunks } }
\* the default user agent of headless Chrome: "HeadlessChrome", abbreviated
TypicalUAs == { Marker \o <<"C">> }

(* --------------------------- pure functions ---------------------------- *)
\* str.replace(old, new): one left-to-right pass over non-overlapping matches
RECURSIVE Replace(_, _, _)
Replace(s, old, new) ==
    IF Len(s) < Len(old) THEN s
    ELSE IF SubSeq(s, 1, Len(old)) = old
         THEN new \o Replace(SubSeq(s, Len(old) + 1, Len(s)), old, new)
         ELSE <<Head(s)>> \o Replace(Tail(s), old, new)

\* old in s
Contains(s, old) ==
    \E i \in 1..(Len(s) - Len(old) + 1) : SubSeq(s, i, i + Len(old) - 1) = old

(* ------------------------------- state --------------------------------- *)
VARIABLES
    headless,     \* Chrome.headless
    engineUA,     \* the user agent a fresh driver of this configuration reports
    driver,       \* self.driver: 0 while the attribute is unset, else a handle id
    handles,      \* driver handles created so far: [live, ua, ready]; ready
                  \* records that the launch() that created it returned
    op,           \* the client call in progress or last finished
    pc,           \* position inside it
    xpath,        \* argument of the interaction call
    mwArg,        \* max_wait argument of the interaction call
    max_wait,     \* get_element local
    iter,         \* get_element loop index
    last_err,     \* get_element local
    user_agent,   \* launch() local
    result,       \* value returned by the finished call
    raised,       \* exception propagated by the finished call
    trace,        \* driver calls, sleeps and get_element entries of the call
    geArgs,       \* arguments of the get_element entries of the call
    finds,        \* outcome of every find_element_by_xpath of the call
    slept,        \* time slept during the call
    uaResult,     \* value get_user_agent() returned
    scope,        \* with statement: "out", "enter", "enter_failed", "body", "exit", "done"
    bodyErr,      \* error the with body raised
    scopeRaised,  \* exception the with statement propagated
    exitShutdowns,   \* shutdown() invocations made by __exit__ of the with statement
    calls,        \* client calls so far
    lists,        \* the list objects of the heap, by reference
    callerRef,    \* the caller's arguments: 0 for None, else a reference
    callerOrig,   \* what the caller's list held before any constructor ran
    sessions      \* sessions constructed from the caller's arguments:
                  \* [headless, arguments (a reference), launched, options]

vars == <<headless, engineUA, driver, handles, op, pc, xpath, mwArg, max_wait,
          iter, last_err, user_agent, result, raised, trace, geArgs, finds,
          slept, uaResult, scope, bodyErr, scopeRaised,
          exitShutdowns, calls, lists, callerRef, callerOrig, sessions>>

sessionVars == <<headless, engineUA, lists, callerRef, callerOrig, sessions>>
geVars == <<xpath, mwArg, max_wait, iter, last_err, geArgs, finds, slept, uaResult>>
scopeVars == <<scope, bodyErr, scopeRaised, exitShutdowns>>

\* Chrome(headless=...), before launch()
InitSession(uas) ==
    /\ headless \in BOOLEAN
    /\ engineUA \in uas
    /\ driver = 0
    /\ handles = <<>>
    /\ op = "none"
    /\ pc = "idle"
    /\ xpath = "x1"
    /\ mwArg = None
    /\ max_wait = 0
    /\ iter = 0
    /\ last_err = NoErr
    /\ user_agent = <<>>
    /\ result = "None"
    /\ raised = NoErr
    /\ trace = <<>>
    /\ geArgs = <<>>
    /\ finds = <<>>
    /\ slept = 0
    /\ uaResult = <<>>
    /\ scope = "out"
    /\ bodyErr = NoErr
    /\ scopeRaised = NoErr
    /\ exitShutdowns = 0
    /\ calls = 0

\* the session was constructed without an arguments list
NoCaller ==
    /\ callerRef = 0
    /\ callerOrig = <<>>
    /\ lists = <<>>
    /\ sessions = <<>>

InitWith(uas) == InitSession(uas) /\ NoCaller

Init == InitWith(TypicalUAs)

Live(h) == h \in 1..Len(handles) /\ handles[h].live
LiveHandles == { h \in 1..Len(handles) : handles[h].live }

\* the client is between two calls
ClientReady ==
    /\ pc \in {"idle", "done"}
    /\ scope \in {"out", "body", "done", "enter_failed"}
    /\ calls < MaxCalls

\* a call inside the with body stays inside; a finished with statement is behind
ClientCallScope ==
    /\ scope' = (IF scope = "body" THEN "body" ELSE "out")
    /\ UNCHANGED <<bodyErr, scopeRaised, exitShutdowns>>

\* a call starts: its history is reset
ResetResults ==
    /\ result' = "None"
    /\ raised' = NoErr
    /\ finds' = <<>>
    /\ slept' = 0
    /\ uaResult' = <<>>
    /\ user_agent' = <<>>

\* the locals of the previous call are gone
ResetLocals ==
    /\ xpath' = "x1"
    /\ mwArg' = None
    /\ max_wait' = 0
    /\ iter' = 0
    /\ last_err' = NoErr
    /\ geArgs' = <<>>
    /\ trace' = <<>>

Begin(o, p) ==
    /\ op' = o
    /\ pc' = p
    /\ ResetResults
    /\ ResetLocals
    /\ calls' = calls + 1

\* a call returns v
Return(v) == pc' = "done" /\ result' = v /\ raised' = NoErr
\* a call raises err
Raise(err) == pc' = "done" /\ result' = "None" /\ raised' = err

(* ------------------------------ launch() ------------------------------- *)
\* client: browser.launch()
CallLaunch ==
    /\ ClientReady
    /\ Begin("launch", "launch_create")
    /\ ClientCallScope
    /\ UNCHANGED <<sessionVars, driver, handles>>

\* variant of LaunchCreate without the "if self.headless" test
LaunchCreate_AlwaysOverride ==
    /\ pc = "launch_create"
    /\ handles' = Append(handles, [live |-> TRUE, ua |-> engineUA, ready |-> FALSE])
    /\ driver' = Len(handles) + 1
    /\ trace' = Append(trace, "create")
    /\ pc' = "launch_ua"
    /\ UNCHANGED <<sessionVars, op, geVars, user_agent, result, raised,
                   scopeVars, calls>>

\* self.driver = selenium.webdriver.Chrome(...) returns a new handle
LaunchCreate ==
    /\ pc = "launch_create"
    /\ handles' = Append(handles, [live |-> TRUE, ua |-> engineUA, ready |-> ~headless])
    /\ driver' = Len(handles) + 1
    /\ trace' = Append(trace, "create")
    /\ IF headless
       THEN pc' = "launch_ua" /\ UNCHANGED <<result, raised>>
       ELSE Return("None")
    /\ UNCHANGED <<sessionVars, op, geVars, user_agent, scopeVars, calls>>

\* selenium.webdriver.Chrome(...) raises: no handle, self.driver not assigned
LaunchCreateFails ==
    /\ pc = "launch_create"
    /\ trace' = Append(trace, "create")
    /\ Raise(DriverErr)
    /\ UNCHANGED <<sessionVars, driver, handles, op, geVars, user_agent,
                   scopeVars, calls>>

\* user_agent = self.get_user_agent().replace('Headless', '')
StripMarker(ua) == Replace(ua, Marker, <<>>)

LaunchGetUA ==
    /\ pc = "launch_ua"
    /\ trace' = Append(trace, "get_ua")
    /\ user_agent' = StripMarker(handles[driver].ua)
    /\ pc' = "launch_cdp"
    /\ UNCHANGED <<sessionVars, driver, handles, op, geVars, result, raised,
                   scopeVars, calls>>

LaunchGetUAFails ==
    /\ pc = "launch_ua"
    /\ trace' = Append(trace, "get_ua")
    /\ Raise(DriverErr)
    /\ UNCHANGED <<sessionVars, driver, handles, op, geVars, user_agent,
                   scopeVars, calls>>

\* self.driver.execute_cdp_cmd('Network.setUserAgentOverride', d)
LaunchCdp ==
    /\ pc = "launch_cdp"
    /\ trace' = Append(trace, "cdp")
    /\ handles' = [handles EXCEPT ![driver].ua = user_agent, ![driver].ready = TRUE]
    /\ Return("None")
    /\ UNCHANGED <<sessionVars, driver, op, geVars, user_agent, scopeVars, calls>>

LaunchCdpFails ==
    /\ pc = "launch_cdp"
    /\ trace' = Append(trace, "cdp")
    /\ Raise(DriverErr)
    /\ UNCHANGED <<sessionVars, driver, handles, op, geVars, user_agent,
                   scopeVars, calls>>

(* ----------------------------- shutdown() ------------------------------ *)
\* client: browser.shutdown()
CallShutdown ==
    /\ ClientReady
    /\ Begin("shutdown", "shutdown_quit")
    /\ ClientCallScope
    /\ UNCHANGED <<sessionVars, driver, handles>>

\* self.driver.quit() on a live handle
ShutdownQuit ==
    /\ pc = "shutdown_quit"
    /\ Live(driver)
    /\ handles' = [handles EXCEPT ![driver].live = FALSE]
    /\ trace' = Append(trace, "quit")
    /\ Return("None")
    /\ UNCHANGED <<sessionVars, driver, op, geVars, user_agent, scopeVars, calls>>

\* self.driver.quit() on a handle already quit: the driver decides
ShutdownQuitAgain ==
    /\ pc = "shutdown_quit"
    /\ driver # 0
    /\ ~Live(driver)
    /\ trace' = Append(trace, "quit")
    /\ \/ Return("None")
       \/ Raise(DriverErr)
    /\ UNCHANGED <<sessionVars, driver, handles, op, geVars, user_agent,
                   scopeVars, calls>>

\* self.driver does not exist yet
ShutdownNoDriver ==
    /\ pc = "shutdown_quit"
    /\ driver = 0
    /\ Raise(AttributeErr)
    /\ UNCHANGED <<sessionVars, driver, handles, op, geVars, user_agent, trace,
                   scopeVars, calls>>

(* --------------------------- get_user_agent() -------------------------- *)
\* client: browser.get_user_agent(), one driver.execute_script call
CallGetUserAgent ==
    /\ ClientReady
    /\ op' = "get_user_agent" /\ pc' = "done"
    /\ IF Live(driver)
       THEN uaResult' = handles[driver].ua /\ raised' = NoErr
       ELSE uaResult' = <<>> /\ raised' = (IF driver = 0 THEN AttributeErr ELSE DriverErr)
    /\ result' = "None" /\ finds' = <<>> /\ slept' = 0 /\ user_agent' = <<>>
    /\ ResetLocals
    /\ calls' = calls + 1
    /\ ClientCallScope
    /\ UNCHANGED <<sessionVars, driver, handles>>

(* ----------------------------- get_element() --------------------------- *)
\* if not max_wait: max_wait = self.max_wait
EffectiveMaxWait(mw) ==
    IF mw = None \/ mw = {0} THEN self_max_wait ELSE CHOOSE n \in mw : TRUE

\* entry of get_element(x, mw): the locals before the loop
GetElementEntry(x, mw) ==
    /\ geArgs' = <<[xpath |-> x, max_wait |-> mw]>>
    /\ trace' = <<"get_element">>
    /\ max_wait' = EffectiveMaxWait(mw)
    /\ iter' = 0
    /\ last_err' = NoErr

\* variant of ForwardArgs that drops the caller's max_wait
ForwardArgs_DropWait(x, mw) == [xpath |-> x, max_wait |-> None]

\* what a wrapper hands to get_element: (xpath, max_wait=max_wait)
ForwardArgs(x, mw) == [xpath |-> x, max_wait |-> mw]

Wrappers == {"type_text", "submit", "click", "get_text"}

\* the element action of each wrapper
ElementAction(o) ==
    CASE o = "type_text" -> "send_keys"
      [] o = "submit" -> "submit"
      [] o = "click" -> "click"
      [] o = "get_text" -> "text"

\* e.text
TextOf(el) == IF el = "e1" THEN "text1" ELSE "text2"

\* client: browser.get_element(x, max_wait=mw)
CallGetElement ==
    /\ ClientReady
    /\ \E x \in Xpaths, mw \in MaxWaitArgs :
          /\ xpath' = x
          /\ mwArg' = mw
          /\ GetElementEntry(x, mw)
    /\ op' = "get_element" /\ pc' = "ge_loop"
    /\ ResetResults
    /\ calls' = calls + 1
    /\ ClientCallScope
    /\ UNCHANGED <<sessionVars, driver, handles>>

\* client: browser.type_text / submit / click / get_text (x, max_wait=mw)
CallWrapper ==
    /\ ClientReady
    /\ \E o \in Wrappers, x \in Xpaths, mw \in MaxWaitArgs :
          /\ op' = o
          /\ xpath' = x
          /\ mwArg' = mw
          /\ GetElementEntry(ForwardArgs(x, mw).xpath, ForwardArgs(x, mw).max_wait)
    /\ pc' = "ge_loop"
    /\ ResetResults
    /\ calls' = calls + 1
    /\ ClientCallScope
    /\ UNCHANGED <<sessionVars, driver, handles>>

\* for _ in range(max_wait + 1): another iteration
InLoop == pc = "ge_loop" /\ iter < max_wait + 1

\* variant of GeFindFound without the break: the loop goes on
GeFindFound_NoBreak ==
    /\ InLoop
    /\ Live(driver)
    /\ \E el \in Elements :
          /\ finds' = Append(finds, [xpath |-> geArgs[1].xpath, kind |-> "found",
                                     elem |-> el, err |-> NoErr])
          /\ result' = el
    /\ trace' = Append(trace, "find")
    /\ raised' = NoErr
    /\ pc' = "ge_sleep"
    /\ UNCHANGED <<sessionVars, driver, handles, op, xpath, mwArg, max_wait,
                   iter, last_err, geArgs, slept, uaResult, user_agent,
                   scopeVars, calls>>

\* e = self.driver.find_element_by_xpath(xpath); break; return e
GeFindFound ==
    /\ InLoop
    /\ Live(driver)
    /\ \E el \in Elements :
          /\ finds' = Append(finds, [xpath |-> geArgs[1].xpath, kind |-> "found",
                                     elem |-> el, err |-> NoErr])
          /\ result' = el
    /\ trace' = Append(trace, "find")
    /\ raised' = NoErr
    /\ pc' = IF op = "get_element" THEN "done" ELSE "act"
    /\ UNCHANGED <<sessionVars, driver, handles, op, xpath, mwArg, max_wait,
                   iter, last_err, geArgs, slept, uaResult, user_agent,
                   scopeVars, calls>>

\* variant of CatchNoSuchElement that keeps the first error
CatchNoSuchElement_KeepFirst(prev, err) == IF prev = NoErr THEN err ELSE prev

\* except NoSuchElementException as err: last_err = err
CatchNoSuchElement(prev, err) == err

GeFindNoSuch ==
    /\ InLoop
    /\ Live(driver)
    /\ \E err \in NoSuchErrs :
          /\ finds' = Append(finds, [xpath |-> geArgs[1].xpath, kind |-> "nosuch",
                                     elem |-> "None", err |-> err])
          /\ last_err' = CatchNoSuchElement(last_err, err)
    /\ trace' = Append(trace, "find")
    /\ pc' = "ge_sleep"
    /\ UNCHANGED <<sessionVars, driver, handles, op, xpath, mwArg, max_wait,
                   iter, geArgs, slept, uaResult, user_agent, result, raised,
                   scopeVars, calls>>

\* variant of GeFindOther whose except clause catches every exception
GeFindOther_CatchAll ==
    /\ InLoop
    /\ LET err == IF driver = 0 THEN AttributeErr ELSE DriverErr
       IN  /\ finds' = Append(finds, [xpath |-> geArgs[1].xpath, kind |-> "other",
                                      elem |-> "None", err |-> err])
           /\ last_err' = err
    /\ trace' = IF driver = 0 THEN trace ELSE Append(trace, "find")
    /\ pc' = "ge_sleep"
    /\ UNCHANGED <<sessionVars, driver, handles, op, xpath, mwArg, max_wait,
                   iter, geArgs, slept, uaResult, user_agent, result, raised,
                   scopeVars, calls>>

\* find_element_by_xpath raises anything else: not caught
GeFindOther ==
    /\ InLoop
    /\ LET err == IF driver = 0 THEN AttributeErr ELSE DriverErr
       IN  /\ finds' = Append(finds, [xpath |-> geArgs[1].xpath, kind |-> "other",
                                      elem |-> "None", err |-> err])
           /\ Raise(err)
    /\ trace' = IF driver = 0 THEN trace ELSE Append(trace, "find")
    /\ UNCHANGED <<sessionVars, driver, handles, op, xpath, mwArg, max_wait,
                   iter, last_err, geArgs, slept, uaResult, user_agent,
                   scopeVars, calls>>

\* time.sleep(self.wait_interval), then the next iteration
GeSleep ==
    /\ pc = "ge_sleep"
    /\ trace' = Append(trace, "sleep")
    /\ slept' = slept + wait_interval
    /\ iter' = iter + 1
    /\ pc' = "ge_loop"
    /\ UNCHANGED <<sessionVars, driver, handles, op, xpath, mwArg, max_wait,
                   last_err, geArgs, finds, uaResult, user_agent, result,
                   raised, scopeVars, calls>>

\* NoSuchElementException(msg=last_err.msg, screen=..., stacktrace=...)
Reraise(err) ==
    [type |-> "NoSuchElementException", msg |-> err.msg, screen |-> err.screen,
     stacktrace |-> err.stacktrace]

\* NoSuchElementException()
GenericNoSuch ==
    [type |-> "NoSuchElementException", msg |-> "", screen |-> "", stacktrace |-> ""]

\* else-clause of the loop, an error was captured
GeExhausted ==
    /\ pc = "ge_loop"
    /\ iter >= max_wait + 1
    /\ last_err # NoErr
    /\ Raise(Reraise(last_err))
    /\ UNCHANGED <<sessionVars, driver, handles, op, xpath, mwArg, max_wait,
                   iter, last_err, geArgs, finds, slept, uaResult, user_agent,
                   trace, scopeVars, calls>>

\* else-clause of the loop, nothing captured (empty range)
GeExhaustedGeneric ==
    /\ pc = "ge_loop"
    /\ iter >= max_wait + 1
    /\ last_err = NoErr
    /\ Raise(GenericNoSuch)
    /\ UNCHANGED <<sessionVars, driver, handles, op, xpath, mwArg, max_wait,
                   iter, last_err, geArgs, finds, slept, uaResult, user_agent,
                   trace, scopeVars, calls>>

\* e.send_keys(keys) / e.submit() / e.click() / e.text, then return
Act ==
    /\ pc = "act"
    /\ trace' = Append(trace, ElementAction(op))
    /\ \/ Return(IF op = "get_text" THEN TextOf(result) ELSE result)
       \/ Raise(DriverErr)
    /\ UNCHANGED <<sessionVars, driver, handles, op, xpath, mwArg, max_wait,
                   iter, last_err, geArgs, finds, slept, uaResult, user_agent,
                   scopeVars, calls>>

(* ---------------------- with browser: ... (scope) ---------------------- *)
\* __enter__: self.launch()
WithEnter ==
    /\ ClientReady
    /\ scope \in {"out", "done", "enter_failed"}
    /\ Begin("launch", "launch_create")
    /\ scope' = "enter"
    /\ bodyErr' = NoErr
    /\ scopeRaised' = NoErr
    /\ exitShutdowns' = 0
    /\ UNCHANGED <<sessionVars, driver, handles>>

\* __enter__: launch() returned, return self: the body starts
EnterReturns ==
    /\ scope = "enter"
    /\ pc = "done"
    /\ raised = NoErr
    /\ scope' = "body"
    /\ UNCHANGED <<sessionVars, driver, handles, op, pc, geVars, user_agent,
                   result, raised, trace, bodyErr, scopeRaised, exitShutdowns,
                   calls>>

\* variant of EnterRaises that cleans up: shutdown() after a failed launch()
EnterRaises_Cleanup ==
    /\ scope = "enter"
    /\ pc = "done"
    /\ raised # NoErr
    /\ scope' = "enter_failed"
    /\ scopeRaised' = raised
    /\ exitShutdowns' = exitShutdowns + 1
    /\ handles' = IF Live(driver) THEN [handles EXCEPT ![driver].live = FALSE]
                  ELSE handles
    /\ UNCHANGED <<sessionVars, driver, op, pc, geVars, user_agent,
                   result, raised, trace, bodyErr, calls>>

\* __enter__: launch() raised: __exit__ is never called
EnterRaises ==
    /\ scope = "enter"
    /\ pc = "done"
    /\ raised # NoErr
    /\ scope' = "enter_failed"
    /\ scopeRaised' = raised
    /\ UNCHANGED <<sessionVars, driver, handles, op, pc, geVars, user_agent,
                   result, raised, trace, bodyErr, exitShutdowns, calls>>

\* variant of ExitWith whose __exit__ does not call shutdown()
ExitWith_NoShutdown(err) ==
    /\ scope = "body"
    /\ pc = "done"
    /\ bodyErr' = err
    /\ scope' = "exit"
    /\ op' = "shutdown"
    /\ pc' = "done"
    /\ ResetResults
    /\ ResetLocals
    /\ UNCHANGED <<sessionVars, driver, handles, scopeRaised, exitShutdowns, calls>>

\* the body is left: __exit__(...) calls self.shutdown()
ExitWith(err) ==
    /\ scope = "body"
    /\ pc = "done"
    /\ bodyErr' = err
    /\ exitShutdowns' = exitShutdowns + 1
    /\ scope' = "exit"
    /\ op' = "shutdown"
    /\ pc' = "shutdown_quit"
    /\ ResetResults
    /\ ResetLocals
    /\ UNCHANGED <<sessionVars, driver, handles, scopeRaised, calls>>

\* the body runs to its end
BodyCompletes ==
    /\ scope = "body"
    /\ ExitWith(NoErr)

\* the body raises: its own error, or the one its last call raised
BodyRaises ==
    /\ scope = "body"
    /\ \E err \in {BodyErr} \cup ({raised} \ {NoErr}) : ExitWith(err)

\* what the with statement propagates once __exit__ returned None
Propagated(body, fromExit) == IF fromExit # NoErr THEN fromExit ELSE body

\* __exit__ finished
ExitReturns ==
    /\ scope = "exit"
    /\ pc = "done"
    /\ scope' = "done"
    /\ scopeRaised' = Propagated(bodyErr, raised)
    /\ UNCHANGED <<sessionVars, driver, handles, op, pc, geVars, user_agent,
                   result, raised, trace, bodyErr, exitShutdowns, calls>>

(* ------------------- construction from a caller's list ---------------- *)
\* self.arguments = arguments if arguments else []: the reference kept
SelfArguments(ref, ls) ==
    IF ref # 0 /\ ls[ref] # <<>> THEN ref ELSE Len(ls) + 1

\* Chrome(headless=h, arguments=<the caller's list>)
ConstructChrome ==
    /\ Len(sessions) < MaxSessions
    /\ \E h \in BOOLEAN :
          LET ref == SelfArguments(callerRef, lists)
              heap == IF ref > Len(lists) THEN Append(lists, <<>>) ELSE lists
          IN  /\ lists' = IF h THEN [heap EXCEPT ![ref] = Append(@, ARGUMENT_HEADLESS)]
                           ELSE heap
              /\ sessions' = Append(sessions, [headless |-> h, arguments |-> ref,
                                               launched |-> FALSE, options |-> <<>>])
    /\ UNCHANGED <<headless, engineUA, callerRef, callerOrig, driver, handles,
                   op, pc, geVars, user_agent, result, raised, trace, scopeVars,
                   calls>>

\* launch() of a constructed session: options.add_argument(arg) for each arg
LaunchOptions ==
    /\ \E i \in 1..Len(sessions) :
          /\ ~sessions[i].launched
          /\ sessions' = [sessions EXCEPT ![i].launched = TRUE,
                                          ![i].options = lists[sessions[i].arguments]]
    /\ UNCHANGED <<headless, engineUA, lists, callerRef, callerOrig, driver,
                   handles, op, pc, geVars, user_agent, result, raised, trace,
                   scopeVars, calls>>

Next ==
    \/ CallLaunch \/ LaunchCreate \/ LaunchCreateFails
    \/ LaunchGetUA \/ LaunchGetUAFails \/ LaunchCdp \/ LaunchCdpFails
    \/ CallShutdown \/ ShutdownQuit \/ ShutdownQuitAgain \/ ShutdownNoDriver
    \/ CallGetUserAgent
    \/ CallGetElement \/ CallWrapper
    \/ GeFindFound \/ GeFindNoSuch \/ GeFindOther \/ GeSleep
    \/ GeExhausted \/ GeExhaustedGeneric \/ Act
    \/ WithEnter \/ EnterReturns \/ EnterRaises
    \/ BodyCompletes \/ BodyRaises \/ ExitReturns

Spec == Init /\ [][Next]_vars

\* launch, shutdown and get_user_agent over every raw user agent
InitUA == InitWith(RawUAs)

NextUA ==
    \/ CallLaunch \/ LaunchCreate \/ LaunchCreateFails
    \/ LaunchGetUA \/ LaunchGetUAFails \/ LaunchCdp \/ LaunchCdpFails
    \/ CallShutdown \/ ShutdownQuit \/ ShutdownQuitAgain \/ ShutdownNoDriver
    \/ CallGetUserAgent

SpecUA == InitUA /\ [][NextUA]_vars

\* sessions constructed from one caller-supplied arguments list
InitArgs ==
    /\ InitSession(TypicalUAs)
    /\ callerRef \in {0, 1}
    /\ callerOrig \in (IF callerRef = 0 THEN {<<>>} ELSE CallerLists)
    /\ lists = (IF callerRef = 0 THEN <<>> ELSE <<callerOrig>>)
    /\ sessions = <<>>

NextArgs == ConstructChrome \/ LaunchOptions

SpecArgs == InitArgs /\ [][NextArgs]_vars

(* ------------------------------ properties ----------------------------- *)
Count(tr, ev) == Cardinality({ i \in 1..Len(tr) : tr[i] = ev })
Attempts == Count(trace, "find")
Sleeps == Count(trace, "sleep")
GeOps == Wrappers \cup {"get_element"}
\* the call in progress or last finished went through get_element
InGetElement == op \in GeOps /\ Len(geArgs) = 1
LastFind == finds[Len(finds)]
AllNoSuch == Len(finds) >= 1 /\ \A i \in 1..Len(finds) : finds[i].kind = "nosuch"

\* C1: a get_element call with wait budget n >= 0, n = 0 included, makes at
\* most n + 1 calls to find_element_by_xpath.
C1_AtMostNPlus1Lookups ==
    \A n \in 0..MaxWaitArg :
        (InGetElement /\ geArgs[1].max_wait = {n}) => Attempts <= n + 1

\* C2: a get_element call with budget n sleeps at most n times and never
\* after its final attempt; a locator that never resolves under the default
\* budget 3 gives exactly 4 attempts and 3 sleeps of wait_interval before the
\* not-found error.  (Stated for n >= 1 and the default; n = 0 is C1's case.)
C2_SleepsOnlyBetweenAttempts ==
    /\ \A n \in 1..MaxWaitArg :
          (InGetElement /\ geArgs[1].max_wait = {n}) => Sleeps <= n
    /\ (InGetElement /\ pc = "done" /\ trace # <<>>) => trace[Len(trace)] # "sleep"
    /\ (InGetElement /\ pc = "done" /\ geArgs[1].max_wait = None /\ AllNoSuch)
          => /\ Attempts = self_max_wait + 1
             /\ Sleeps = self_max_wait
             /\ slept = self_max_wait * wait_interval
             /\ raised.type = "NoSuchElementException"

\* C3: when the lookup succeeds on attempt k, get_element returns the element
\* that attempt produced, after exactly k attempts and k - 1 sleeps, the
\* successful attempt being the last thing the loop did.
C3_FoundOnAttemptK ==
    (InGetElement /\ Len(finds) >= 1 /\ LastFind.kind = "found")
        => LET k == Len(finds)
           IN  /\ Attempts = k
               /\ Sleeps = k - 1
               /\ slept = (k - 1) * wait_interval
               /\ op = "get_element"
                     => /\ pc = "done"
                        /\ result = LastFind.elem
                        /\ raised = NoErr
                        /\ trace[Len(trace)] = "find"

C3_Witness ==
    /\ op = "get_element" /\ pc = "done"
    /\ Len(finds) = 3 /\ LastFind.kind = "found"
    /\ result = "e2"

\* C4: when every attempt raised not-found, get_element raises a not-found
\* error whose msg, screen and stacktrace are those of the last failed attempt.
C4_LastErrorSurfaced ==
    (InGetElement /\ pc = "done" /\ AllNoSuch)
        => /\ raised.type = "NoSuchElementException"
           /\ raised.msg = LastFind.err.msg
           /\ raised.screen = LastFind.err.screen
           /\ raised.stacktrace = LastFind.err.stacktrace

C4_Witness ==
    /\ InGetElement /\ pc = "done" /\ AllNoSuch
    /\ Len(finds) >= 2
    /\ finds[1].err # LastFind.err
    /\ raised.msg = LastFind.err.msg

C6_OverrideOnceWhenHeadless ==
    op = "launch"
        => /\ (pc = "done" /\ raised = NoErr)
                 => Count(trace, "cdp") = (IF headless THEN 1 ELSE 0)
           /\ Count(trace, "cdp") <= 1
           /\ ~headless => Count(trace, "cdp") = 0
           /\ \A i \in 1..Len(trace) :
                 trace[i] = "cdp"
                     => /\ \E j \in 1..(i - 1) : trace[j] = "create"
                        /\ driver = Len(handles)
                        /\ driver # 0

C6_Witness ==
    /\ op = "launch" /\ pc = "done" /\ raised = NoErr
    /\ headless
    /\ trace = <<"create", "get_ua", "cdp">>

\* C7: after launch() of a headless session the user agent pushed to the
\* browser, and reported by get_user_agent(), does not contain "Headless",
\* whatever raw user agent the engine reported.
C7_NoMarkerAfterHeadlessLaunch ==
    /\ (headless /\ op = "launch" /\ pc = "done" /\ raised = NoErr)
          => ~Contains(handles[driver].ua, Marker)
    /\ (headless /\ op = "get_user_agent" /\ raised = NoErr /\ handles[driver].ready)
          => ~Contains(uaResult, Marker)

\* C8: type_text, click, submit and get_text make exactly one get_element call,
\* with the caller's locator and max_wait, before the element action; when it
\* raises, the action is not performed and the call raises.
C8_WrapperResolvesOnce ==
    op \in Wrappers
        => LET acts == { i \in 1..Len(trace) : trace[i] \in {"send_keys", "click", "submit", "text"} }
               found == Len(finds) >= 1 /\ LastFind.kind = "found"
           IN  /\ geArgs = <<[xpath |-> xpath, max_wait |-> mwArg]>>
               /\ Count(trace, "get_element") = 1
               /\ trace[1] = "get_element"
               /\ \A i \in 1..Len(finds) : finds[i].xpath = xpath
               /\ max_wait = EffectiveMaxWait(mwArg)
               /\ Cardinality(acts) <= 1
               /\ \A i \in acts :
                     /\ i = Len(trace)
                     /\ trace[i] = ElementAction(op)
                     /\ trace[i - 1] = "find"
                     /\ found
               /\ pc = "done" => (found <=> acts # {})
               /\ (pc = "done" /\ ~found) => raised # NoErr

C8_Witness ==
    /\ op = "type_text" /\ pc = "done" /\ raised = NoErr
    /\ xpath = "x2" /\ mwArg = {2}
    /\ trace = <<"get_element", "find", "sleep", "find", "send_keys">>

\* C9: once shutdown() has quit the session's handle, the session is never in
\* the launched state again.
C9_ShutdownIsTerminal ==
    (\E h \in 1..Len(handles) : ~handles[h].live) => ~Live(driver)

\* C10: at most one handle created by the instance is live at any time.
C10_AtMostOneLiveHandle == Cardinality(LiveHandles) <= 1

\* C11: when launch() raises during scope entry, __exit__ and shutdown() are
\* never invoked and the launch error reaches the caller unchanged; a handle
\* created before the user-agent read or the override failed stays live.
C11_FailedEntrySkipsShutdown ==
    scope = "enter_failed"
        => /\ exitShutdowns = 0
           /\ op = "launch" /\ pc = "done"
           /\ raised # NoErr
           /\ scopeRaised = raised
           /\ Count(trace, "quit") = 0
           /\ Len(trace) >= 2
                 => /\ driver = Len(handles)
                    /\ Live(driver)
                    /\ ~handles[driver].ready

C11_Witness ==
    /\ scope = "enter_failed"
    /\ headless
    /\ trace = <<"create", "get_ua", "cdp">>
    /\ scopeRaised = DriverErr
    /\ Live(driver)

\* C13: when a lookup raises an error other than not-found, get_element
\* raises that same error at once: no sleep and no lookup follow it, and it
\* is not turned into a not-found error, however many not-found failures
\* came before.
C13_OtherErrorPropagates ==
    (InGetElement /\ Len(finds) >= 1 /\ LastFind.kind = "other")
        => /\ pc = "done"
           /\ raised = LastFind.err
           /\ raised.type # "NoSuchElementException"
           /\ result = "None"
           /\ Sleeps = Len(finds) - 1
           /\ slept = (Len(finds) - 1) * wait_interval
           /\ \A i \in 1..(Len(finds) - 1) : finds[i].kind = "nosuch"
           /\ trace[Len(trace)] \notin {"sleep", "send_keys", "click", "submit", "text"}
           /\ driver # 0 => /\ Attempts = Len(finds)
                            /\ trace[Len(trace)] = "find"

C13_Witness ==
    /\ op = "get_element" /\ pc = "done"
    /\ Len(finds) = 3
    /\ finds[1].kind = "nosuch" /\ finds[2].kind = "nosuch"
    /\ LastFind.kind = "other"
    /\ raised = DriverErr

\* C12: the constructor copies its configuration: the caller's arguments
\* list is never changed, and every session constructed from it launches with
\* the caller's arguments in order plus at most one "--headless".
C12_ArgumentsCopied ==
    /\ callerRef # 0 => lists[callerRef] = callerOrig
    /\ \A i \in 1..Len(sessions) :
          sessions[i].launched
              => sessions[i].options \in {callerOrig, Append(callerOrig, ARGUMENT_HEADLESS)}

====
